---- MODULE Spec2Model ----
(***************************************************************************)
(* Model of daemon/claude_slack_daemon.py: the poll loop, the per-thread   *)
(* state maps, the security gates, the command dispatcher and the          *)
(* assistant and shell executors.                                          *)
(*                                                                         *)
(* Text is a sequence of one-character strings, so that lower(), strip(),  *)
(* startswith() and split() are computed as the code computes them.        *)
(***************************************************************************)
EXTENDS Integers, Sequences, FiniteSets, TLC

(***************************************************************************)
(* Bounds of the model.                                                    *)
(***************************************************************************)
\* number of messages users (or bots) post after the startup message
MaxPosts == 1
\* safety cap of fetch_messages/fetch_replies (limit=50), scaled down
FetchLimit == 2
\* PROGRESS_INTERVAL (default 30 s) in model time units
ProgressInterval == 3
\* CLAUDE_TIMEOUT (default 600 s) in model time units
ClaudeTimeout == 5

\* the count of handle() calls per message saturates here
DispatchCap == 2

\* timeout of one thread.join() slice in run_claude
JoinTimeout == 2

\* slack_api(retries=3)
Retries == 3

\* the default Retry-After of a rate-limited answer, in seconds
RetryAfter == 5

(***************************************************************************)
(* Text primitives.                                                        *)
(***************************************************************************)
UpperChars == <<"A","B","C","D","E","F","G","H","I","J","K","L","M","N","O","P","Q","R","S","T","U","V","W","X","Y","Z">>
LowerChars == <<"a","b","c","d","e","f","g","h","i","j","k","l","m","n","o","p","q","r","s","t","u","v","w","x","y","z">>

LowerChar(c) ==
    IF \E i \in 1..Len(UpperChars) : UpperChars[i] = c
    THEN LowerChars[CHOOSE i \in 1..Len(UpperChars) : UpperChars[i] = c]
    ELSE c

\* str.lower()
Lower(s) == [i \in 1..Len(s) |-> LowerChar(s[i])]

IsSpace(c) == c = " "

RECURSIVE LStrip(_)
LStrip(s) == IF s # <<>> /\ IsSpace(Head(s)) THEN LStrip(Tail(s)) ELSE s

RECURSIVE RStrip(_)
RStrip(s) ==
    IF s # <<>> /\ IsSpace(s[Len(s)]) THEN RStrip(SubSeq(s, 1, Len(s) - 1)) ELSE s

\* str.strip()
Strip(s) == RStrip(LStrip(s))

\* str.startswith(p)
StartsWith(s, p) == Len(s) >= Len(p) /\ SubSeq(s, 1, Len(p)) = p

\* s[n:]
Drop(s, n) == IF n >= Len(s) THEN <<>> ELSE SubSeq(s, n + 1, Len(s))

\* length of the first whitespace-free word of s (s has no leading space)
RECURSIVE WordLen(_)
WordLen(s) == IF s = <<>> \/ IsSpace(Head(s)) THEN 0 ELSE 1 + WordLen(Tail(s))

\* str.split(maxsplit=1): the first word and, if anything but whitespace
\* follows it, the rest of the text without its leading whitespace
SplitOnce(s) ==
    LET body == LStrip(s)
        n    == WordLen(body)
        rest == LStrip(Drop(body, n))
    IN  IF body = <<>> THEN <<>>
        ELSE IF rest = <<>> THEN << SubSeq(body, 1, n) >>
        ELSE << SubSeq(body, 1, n), rest >>

(***************************************************************************)
(* Configuration data of the program.                                      *)
(***************************************************************************)
ALLOWED_SHELL_PREFIXES ==
    << <<"l","s">>, <<"p","w","d">>, <<"c","a","t">>, <<"h","e","a","d">>, <<"t","a","i","l">>, <<"g","r","e","p">>, <<"f","i","n","d">>, <<"w","c">>,
       <<"g","i","t"," ","s","t","a","t","u","s">>, <<"g","i","t"," ","l","o","g">>, <<"g","i","t"," ","d","i","f","f">>, <<"g","i","t"," ","b","r","a","n","c","h">>, <<"g","i","t"," ","s","h","o","w">>,
       <<"c","l","a","u","d","e"," ","c","o","n","v","e","r","s","a","t","i","o","n">>, <<"c","l","a","u","d","e"," ","c","o","n","f","i","g">>,
       <<"e","c","h","o">>, <<"d","a","t","e">>, <<"w","h","o","a","m","i">>, <<"h","o","s","t","n","a","m","e">>, <<"u","n","a","m","e">>,
       <<"d","f">>, <<"d","u">>, <<"f","r","e","e">>, <<"p","s">>, <<"t","o","p"," ","-","l"," ","1">>, <<"u","p","t","i","m","e">>,
       <<"p","y","t","h","o","n"," ","-","-","v","e","r","s","i","o","n">>, <<"p","y","t","h","o","n","3"," ","-","-","v","e","r","s","i","o","n">>, <<"n","o","d","e"," ","-","-","v","e","r","s","i","o","n">>,
       <<"n","p","m"," ","-","-","v","e","r","s","i","o","n">>,
       <<"w","h","i","c","h">>, <<"t","y","p","e">>, <<"f","i","l","e">>, <<"s","t","a","t">> >>

\* keys of MODES
MODES == << <<"p","l","a","n">>, <<"r","e","a","d","o","n","l","y">>, <<"a","u","t","o">>, <<"y","o","l","o">> >>

MODELS == << <<"s","o","n","n","e","t">>, <<"o","p","u","s">>, <<"h","a","i","k","u">> >>

InSeq(x, seq) == \E i \in 1..Len(seq) : seq[i] = x

W_default == <<"d","e","f","a","u","l","t">>
SENTINEL_CONTINUE == <<"_","_","c","o","n","t","i","n","u","e","_","_">>
DEFAULT_CWD == <<"/","h","o","m","e">>
HOME == <<"/","h","o","m","e">>

(***************************************************************************)
(* State.                                                                  *)
(***************************************************************************)
VARIABLES
    env,             \* the users of this run: what they post, and how much
    ALLOWED_USERS,   \* configuration: the user allow-list (empty = open)
    DEFAULT_MODEL,   \* configuration: CLAUDE_MODEL, <<>> when unset
    sessions,        \* thread -> session id or the continue sentinel
    thread_cwd,      \* thread -> working directory
    thread_mode,     \* thread -> mode name
    thread_model,    \* thread -> model name
    active_threads,  \* thread -> id of the last reply seen
    disk,            \* content of STATE_FILE: a snapshot of the five maps
    last_ts,         \* main(): the global poll cursor
    pc,              \* main(): position of the single control flow
    all_messages,    \* fetch_messages/fetch_replies: accumulated messages
    cursor,          \* fetch_messages/fetch_replies: pagination cursor
    msgs,            \* main(): messages (or replies) left in the for loop
    todo,            \* main(): threads left in the reply loop
    cur_thread,      \* main(): thread_ts and thread_last of the reply loop
    cur,             \* handle(): the message being handled
    run,             \* run_claude(): the invocation in flight
    out,             \* what the handler running or last run did, in order
    channel,         \* transport: the messages posted to the channel
    nposts,          \* transport: number of messages posted
    answer,          \* transport: its answer to the fetch call just made
    handled,         \* message id -> number of times handle() was called
    api              \* slack_api(): the for loop of the call being made

maps == << sessions, thread_cwd, thread_mode, thread_model, active_threads >>

vars == << env, ALLOWED_USERS, DEFAULT_MODEL, sessions, thread_cwd, thread_mode,
           thread_model, active_threads, disk, last_ts, pc, all_messages,
           cursor, msgs, todo, cur_thread, cur, run, out, channel, nposts, answer,
           handled, api >>

(***************************************************************************)
(* dict helpers: a dict is a function whose domain is its key set.          *)
(***************************************************************************)
Put(d, k, v) == [x \in DOMAIN d \cup {k} |-> IF x = k THEN v ELSE d[x]]

\* dict.pop(k, None)
Pop(d, k) == [x \in DOMAIN d \ {k} |-> d[x]]

\* dict.get(k, dflt)
Get(d, k, dflt) == IF k \in DOMAIN d THEN d[k] ELSE dflt

Empty == [x \in {} |-> <<>>]

\* a or b, on text
Or(a, b) == IF a # <<>> THEN a ELSE b

(***************************************************************************)
(* State management.                                                       *)
(***************************************************************************)
\* the document save_state() writes, for given values of the five maps
Snapshot(s, c, mo, mdl, a) ==
    [sessions |-> s, thread_cwd |-> c, thread_mode |-> mo,
     thread_model |-> mdl, active_threads |-> a]

get_cwd(cwds, thread_ts) == Get(cwds, thread_ts, DEFAULT_CWD)

(***************************************************************************)
(* Security.                                                               *)
(***************************************************************************)
\* is_user_allowed without the membership test
is_user_allowed_open(user_id) == TRUE

is_user_allowed(user_id) ==
    IF ALLOWED_USERS = {} THEN TRUE ELSE user_id \in ALLOWED_USERS

is_shell_command_allowed(cmd_str) ==
    LET cmd_lower == Strip(Lower(cmd_str))
    IN  \/ \E i \in 1..Len(ALLOWED_SHELL_PREFIXES) :
              StartsWith(cmd_lower, Lower(ALLOWED_SHELL_PREFIXES[i]))
        \/ StartsWith(cmd_lower, <<"c","d"," ">>)

(***************************************************************************)
(* Shell executor.  The result is what run_shell did: whether it started   *)
(* a subprocess, and the kind of text it returned.                         *)
(***************************************************************************)
\* run_shell without the allow-list test of line 343
run_shell_unchecked(cmd_str, cwd) ==
    << [kind |-> "subprocess_shell", arg |-> cwd],
       [kind |-> "shell_output", arg |-> cmd_str] >>

run_shell(cmd_str, cwd) ==
    IF ~is_shell_command_allowed(cmd_str)
    THEN << [kind |-> "shell_not_allowed", arg |-> cmd_str] >>
    ELSE << [kind |-> "subprocess_shell", arg |-> cwd],
            [kind |-> "shell_output", arg |-> cmd_str] >>

(***************************************************************************)
(* File system seen by the cd command.                                     *)
(***************************************************************************)
\* os.path.expanduser
expanduser(path) ==
    IF path = <<"~">> \/ StartsWith(path, <<"~","/">>) THEN HOME \o Drop(path, 1) ELSE path

\* os.path.realpath: /l is a symbolic link to /d, /d/.. is the root, and a
\* relative path is resolved against the directory the daemon was started
\* in, here /home
realpath(path) ==
    CASE path = <<"/","l">> -> <<"/","d">>
      [] path = <<"/","d","/",".",".">> -> <<"/">>
      [] path = <<".",".">> -> <<"/">>
      [] OTHER -> path

\* os.path.isdir that takes every path for a directory
isdir_any(path) == TRUE

\* os.path.isdir
isdir(path) == path \in { <<"/">>, <<"/","d">>, <<"/","h","o","m","e">> }

(***************************************************************************)
(* parse_prefix.                                                           *)
(***************************************************************************)
\* re.match(r'^(w1|w2|..):\s*(.+)$', s, IGNORECASE | DOTALL): the index of
\* the matching word, 0 if there is no match
PrefixIndex(words, s) ==
    LET hits == { i \in 1..Len(words) :
                    /\ StartsWith(Lower(s), words[i] \o <<":">>)
                    /\ Len(s) > Len(words[i]) + 1 }
    IN  IF hits = {} THEN 0 ELSE CHOOSE i \in hits : \A j \in hits : i <= j

\* group(2) of that match: \s* is greedy, (.+) takes at least one character
PrefixRest(words, s, i) ==
    LET rest == Drop(s, Len(words[i]) + 1)
    IN  IF LStrip(rest) # <<>> THEN LStrip(rest) ELSE << rest[Len(rest)] >>

\* parse_prefix without the second match
parse_prefix_mode_only(text) ==
    LET mi == PrefixIndex(MODES, text)
    IN  [mode |-> IF mi = 0 THEN <<>> ELSE MODES[mi], model |-> <<>>,
         remaining |-> IF mi = 0 THEN text ELSE Strip(PrefixRest(MODES, text, mi))]

parse_prefix(text) ==
    LET mi  == PrefixIndex(MODES, text)
        mode == IF mi = 0 THEN <<>> ELSE MODES[mi]
        r1  == IF mi = 0 THEN text ELSE Strip(PrefixRest(MODES, text, mi))
        di  == PrefixIndex(MODELS, r1)
        model == IF di = 0 THEN <<>> ELSE MODELS[di]
        r2  == IF di = 0 THEN r1 ELSE Strip(PrefixRest(MODELS, r1, di))
    IN  [mode |-> mode, model |-> model, remaining |-> r2]

(***************************************************************************)
(* handle(): the message handler.  Handle(m) is what one call does up to   *)
(* its return, its sys.exit or its call of run_claude: the new values of   *)
(* the maps and of the state file, the messages sent and subprocesses      *)
(* started (in order), and how it ends.                                    *)
(***************************************************************************)
Ev(k, a) == [kind |-> k, arg |-> a]

\* no thread id, and no call of run_claude
NoThread == -1

NoCall == [prompt |-> <<>>, cwd |-> <<>>, session_id |-> <<>>, resume_last |-> FALSE,
           mode |-> <<>>, model |-> <<>>, thread_ts |-> NoThread]

Outcome(s, c, mo, mdl, a, d, o, e, call) ==
    [sessions |-> s, thread_cwd |-> c, thread_mode |-> mo, thread_model |-> mdl,
     active_threads |-> a, disk |-> d, out |-> o, end |-> e, call |-> call]

\* the handler changed nothing but sent the messages o
Reply(o) ==
    Outcome(sessions, thread_cwd, thread_mode, thread_model, active_threads,
            disk, o, "return", NoCall)

\* the handler changed the maps, saved them and sent the messages o
Saved(s, c, mo, mdl, a, o) ==
    Outcome(s, c, mo, mdl, a, Snapshot(s, c, mo, mdl, a), o, "return", NoCall)

\* the text of the status command
StatusReport(thread_ts) ==
    [cwd      |-> get_cwd(thread_cwd, thread_ts),
     mode     |-> Get(thread_mode, thread_ts, W_default),
     model    |-> Get(thread_model, thread_ts, Or(DEFAULT_MODEL, W_default)),
     sessions |-> { sessions[t] : t \in DOMAIN sessions }]

HandleStop(thread_ts) ==
    Outcome(sessions, thread_cwd, thread_mode, thread_model, active_threads,
            Snapshot(sessions, thread_cwd, thread_mode, thread_model, active_threads),
            << Ev("send_stopped", thread_ts) >>, "exit", NoCall)

HandleNew(thread_ts) ==
    Saved(Pop(sessions, thread_ts), thread_cwd, Pop(thread_mode, thread_ts),
          Pop(thread_model, thread_ts), active_threads,
          << Ev("send_new_session", thread_ts) >>)

\* the branch "if low.startswith('mode')"
HandleMode(text, thread_ts) ==
    LET parts == SplitOnce(text)
        mode_name == Lower(Strip(parts[2]))
    IN  IF Len(parts) > 1
        THEN IF InSeq(mode_name, MODES)
             THEN Saved(sessions, thread_cwd, Put(thread_mode, thread_ts, mode_name),
                        thread_model, active_threads,
                        << Ev("send_mode_set", mode_name) >>)
             ELSE IF mode_name = W_default
             THEN Saved(sessions, thread_cwd, Pop(thread_mode, thread_ts),
                        thread_model, active_threads,
                        << Ev("send_mode_reset", thread_ts) >>)
             ELSE Reply(<< Ev("send_unknown_mode", mode_name) >>)
        ELSE Reply(<< Ev("send_current_mode", Get(thread_mode, thread_ts, W_default)) >>)

\* the branch "if low.startswith('model')"
HandleModel(text, thread_ts) ==
    LET parts == SplitOnce(text)
        model_name == Lower(Strip(parts[2]))
    IN  IF Len(parts) > 1
        THEN IF InSeq(model_name, MODELS)
             THEN Saved(sessions, thread_cwd, thread_mode,
                        Put(thread_model, thread_ts, model_name), active_threads,
                        << Ev("send_model_set", model_name) >>)
             ELSE IF model_name = W_default
             THEN Saved(sessions, thread_cwd, thread_mode,
                        Pop(thread_model, thread_ts), active_threads,
                        << Ev("send_model_reset", thread_ts) >>)
             ELSE Reply(<< Ev("send_unknown_model", model_name) >>)
        ELSE Reply(<< Ev("send_current_model",
                         Get(thread_model, thread_ts, Or(DEFAULT_MODEL, W_default))) >>)

\* the branch "if low.startswith('resume')"
HandleResume(text, thread_ts) ==
    LET parts == SplitOnce(text)
    IN  IF Len(parts) > 1
        THEN Saved(Put(sessions, thread_ts, Strip(parts[2])), thread_cwd,
                   thread_mode, thread_model, active_threads,
                   << Ev("send_resuming", Strip(parts[2])) >>)
        ELSE Saved(Put(sessions, thread_ts, SENTINEL_CONTINUE), thread_cwd,
                   thread_mode, thread_model, active_threads,
                   << Ev("send_resuming_last", thread_ts) >>)

\* the branch "if text.startswith('!')"
HandleShell(text, ts, thread_ts) ==
    LET cmd_str == Strip(Drop(text, 1))
        cwd     == get_cwd(thread_cwd, thread_ts)
        active  == Put(active_threads, thread_ts, ts)
        path    == expanduser(Strip(Drop(cmd_str, 3)))
        real_path == realpath(path)
    IN  IF cmd_str = <<>> THEN Reply(<<>>)
        ELSE IF StartsWith(Lower(cmd_str), <<"c","d"," ">>)
        THEN IF isdir(real_path)
             THEN Saved(sessions, Put(thread_cwd, thread_ts, real_path), thread_mode,
                        thread_model, active, << Ev("send_cwd", real_path) >>)
             ELSE Outcome(sessions, thread_cwd, thread_mode, thread_model, active,
                          disk, << Ev("send_not_found", path) >>, "return", NoCall)
        ELSE Outcome(sessions, thread_cwd, thread_mode, thread_model, active, disk,
                     run_shell(cmd_str, cwd) \o << Ev("send_shell_result", thread_ts) >>,
                     "return", NoCall)

\* the assistant path, up to the call of run_claude
HandlePrompt(text, ts, thread_ts) ==
    LET p      == parse_prefix(text)
        mode   == Or(p.mode, Get(thread_mode, thread_ts, <<>>))
        model  == Or(p.model, Get(thread_model, thread_ts, <<>>))
        modes  == IF p.mode # <<>> THEN Put(thread_mode, thread_ts, p.mode)
                  ELSE thread_mode
        models == IF p.model # <<>> THEN Put(thread_model, thread_ts, p.model)
                  ELSE thread_model
        cwd    == get_cwd(thread_cwd, thread_ts)
        active == Put(active_threads, thread_ts, ts)
        sid    == Get(sessions, thread_ts, <<>>)
        resume_last == sid = SENTINEL_CONTINUE
    IN  Outcome(sessions, thread_cwd, modes, models, active,
                Snapshot(sessions, thread_cwd, modes, models, active),
                << Ev("send_ack", [cwd |-> cwd, mode |-> Or(mode, W_default),
                                   model |-> Or(model, Or(DEFAULT_MODEL, W_default))]) >>,
                "run_claude",
                [prompt |-> p.remaining, cwd |-> cwd,
                 session_id |-> IF resume_last THEN <<>> ELSE sid,
                 resume_last |-> resume_last, mode |-> mode, model |-> model,
                 thread_ts |-> thread_ts])

Handle(m) ==
    LET text == Strip(m.text)
        ts   == m.ts
        thread_ts == m.thread_ts
        low  == Lower(text)
    IN  IF ~is_user_allowed(m.user)
        THEN Reply(<< Ev("send_not_authorized", thread_ts) >>)
        ELSE IF low = <<"s","t","o","p">> THEN HandleStop(thread_ts)
        ELSE IF low = <<"h","e","l","p">> THEN Reply(<< Ev("send_help", thread_ts) >>)
        ELSE IF low = <<"s","t","a","t","u","s">>
        THEN Reply(<< Ev("send_status", StatusReport(thread_ts)) >>)
        ELSE IF low = <<"n","e","w">> THEN HandleNew(thread_ts)
        ELSE IF StartsWith(low, <<"m","o","d","e">>) THEN HandleMode(text, thread_ts)
        ELSE IF StartsWith(low, <<"m","o","d","e","l">>) THEN HandleModel(text, thread_ts)
        ELSE IF StartsWith(low, <<"r","e","s","u","m","e">>) THEN HandleResume(text, thread_ts)
        ELSE IF StartsWith(text, <<"!">>) THEN HandleShell(text, ts, thread_ts)
        ELSE HandlePrompt(text, ts, thread_ts)

(***************************************************************************)
(* run_claude: the result of the finished subprocess.  kind is what the    *)
(* child wrote: "error" (timeout or failure to start), "empty" (no         *)
(* stdout), "not_json", "non_object" (valid JSON that is not an object),   *)
(* "object" (result is text), "object_no_result", "object_bad_result"      *)
(* (result is null or a number).  sid is the session_id of an object.      *)
(***************************************************************************)
OutputKinds ==
    { "error", "empty", "not_json", "non_object", "object", "object_no_result",
      "object_bad_result" }

SID_A == <<"s","i","d","A">>

\* lines 319-336 and 557-562: raises is "an exception leaves handle()",
\* new_sid the session id returned, sent whether result text is sent
ClaudeResult(kind, sid) ==
    CASE kind = "non_object" ->
            [raises |-> TRUE, new_sid |-> <<>>, sent |-> FALSE]
      [] kind = "object_bad_result" ->
            [raises |-> TRUE, new_sid |-> sid, sent |-> FALSE]
      [] kind \in {"object", "object_no_result"} ->
            [raises |-> FALSE, new_sid |-> sid, sent |-> TRUE]
      [] OTHER ->
            [raises |-> FALSE, new_sid |-> <<>>, sent |-> TRUE]

\* the session arguments of the command line: none
NoArgs == [resume |-> <<>>, continue |-> FALSE]

\* --continue whenever there is no session id
resume_args_continue_default(session_id, resume_last) ==
    [resume |-> session_id, continue |-> session_id = <<>>]

\* lines 256-259: "--resume <id>" if session_id, else "--continue" if
\* resume_last
resume_args(session_id, resume_last) ==
    [resume |-> session_id, continue |-> session_id = <<>> /\ resume_last]

NoRun == [active |-> FALSE, call |-> NoCall, cmd |-> NoArgs, now |-> 0,
          last_update |-> 0, progress_ts |-> FALSE, done |-> FALSE,
          send_failed |-> FALSE, new_sid |-> <<>>]

\* the state of run_claude after thread.start()
StartRun(call) ==
    [active |-> TRUE, call |-> call,
     cmd |-> resume_args(call.session_id, call.resume_last), now |-> 0,
     last_update |-> 0, progress_ts |-> FALSE, done |-> FALSE,
     send_failed |-> FALSE, new_sid |-> <<>>]

\* the progress condition measured against the subprocess timeout
ProgressDueAtTimeout(thread_ts, elapsed, now, last_update) ==
    thread_ts # NoThread /\ elapsed > 0 /\ (now - last_update) >= ClaudeTimeout + JoinTimeout

\* the progress condition of line 307
ProgressDue(thread_ts, elapsed, now, last_update) ==
    thread_ts # NoThread /\ elapsed > 0 /\ (now - last_update) >= ProgressInterval

(***************************************************************************)
(* slack_api(): one call is a for loop of at most retries attempts.  The   *)
(* remote answers an attempt with "ok", with an application error that is  *)
(* the rate limit ("ratelimited") or another one ("error"), with a network *)
(* failure (URLError), or with an HTTP error (HTTPError, a subclass of     *)
(* URLError) of status 429 or another status.                              *)
(***************************************************************************)
RemoteOutcomes == { "ok", "ratelimited", "error", "network", "http429", "http" }

NoApiCall == [status |-> "idle", attempt |-> 0, log |-> <<>>, slept |-> <<>>]

\* the except clause that takes the exception of outcome o: HTTPError is a
\* URLError, and except URLError comes first
CaughtAs(o) == IF o \in {"network", "http429", "http"} THEN "URLError" ELSE "none"

\* attempt with an application error retried like a network failure
slack_api_retry_errors(call, o) ==
    LET last == call.attempt = Retries - 1
    IN  [status  |-> IF o = "ok" THEN "returned"
                     ELSE IF last THEN "raised" ELSE "calling",
         attempt |-> call.attempt + 1,
         log     |-> Append(call.log, o),
         slept   |-> call.slept]

\* one iteration of the for loop, lines 116-155, and line 157 after the
\* last one: the call after the attempt that met outcome o
slack_api(call, o) ==
    LET last == call.attempt = Retries - 1
    IN  [status  |-> CASE o = "ok" -> "returned"
                       [] o = "error" -> "raised"
                       [] o = "ratelimited" -> IF last THEN "raised" ELSE "calling"
                       [] CaughtAs(o) = "URLError" ->
                            IF last THEN "raised" ELSE "calling",
         attempt |-> call.attempt + 1,
         log     |-> Append(call.log, o),
         slept   |-> IF CaughtAs(o) = "URLError" /\ ~last
                     THEN Append(call.slept, 2 ^ call.attempt)
                     ELSE IF o = "ratelimited" THEN Append(call.slept, RetryAfter)
                     ELSE call.slept]

\* slack_api is called
SlackCall ==
    /\ api.status # "calling"
    /\ api' = [NoApiCall EXCEPT !.status = "calling"]
    /\ UNCHANGED << env, ALLOWED_USERS, DEFAULT_MODEL, maps, disk, last_ts, pc,
                    all_messages, cursor, msgs, todo, cur_thread, cur, run, out,
                    channel, nposts, answer, handled >>

\* one attempt of the call
SlackAttempt ==
    /\ api.status = "calling"
    /\ \E o \in RemoteOutcomes : api' = slack_api(api, o)
    /\ UNCHANGED << env, ALLOWED_USERS, DEFAULT_MODEL, maps, disk, last_ts, pc,
                    all_messages, cursor, msgs, todo, cur_thread, cur, run, out,
                    channel, nposts, answer, handled >>

(***************************************************************************)
(* Transport: what conversations.history and conversations.replies hold.   *)
(* A message is known by its id (ts); channel maps the ids posted so far   *)
(* to the message.  What a user wrote is fixed when the message is first   *)
(* read by the poll loop (read), which is the first use the program makes  *)
(* of it.                                                                  *)
(***************************************************************************)
PollPosts == 2

BOT_USER == "BOT"
STARTUP_TS == 1

Texts ==
    { <<"s","t","o","p">>, <<"h","e","l","p">>, <<"s","t","a","t","u","s">>, <<"n","e","w">>,
      <<"m","o","d","e"," ","p","l","a","n">>, <<"m","o","d","e"," ","d","e","f","a","u","l","t">>, <<"m","o","d","e","l"," ","o","p","u","s">>, <<"m","o","d","e","l"," ","d","e","f","a","u","l","t">>,
      <<"m","o","d","e","r","n",":"," ","x">>, <<"r","e","s","u","m","e">>, <<"r","e","s","u","m","e"," ","s","1">>, <<"r","e","s","u","m","e","d"," ","x">>,
      <<"!","l","s">>, <<"!","r","m"," ","x">>, <<"!","c","d"," ","/","d">>, <<"!","c","d"," ","/","x">>,
      <<"f","i","x">>, <<"a","u","t","o",":"," ","o","p","u","s",":"," ","f","i","x">>, <<>> }

Users == { "U1", "U2" }

\* what a message can hold: a user's text, or a bot's message
BodiesIn(users, texts) ==
    { [user |-> u, bot_id |-> FALSE, text |-> t] : u \in users, t \in texts }
    \cup { [user |-> BOT_USER, bot_id |-> TRUE, text |-> <<"f","i","x">>] }

Bodies == env.bodies

Unread(thread_ts) ==
    [thread_ts |-> thread_ts, user |-> "", bot_id |-> FALSE, text |-> <<>>,
     read |-> FALSE]

\* the message of id ts, as the transport delivers it, holding body
Msg(ts, body) ==
    [ts |-> ts, thread_ts |-> channel[ts].thread_ts, user |-> body.user,
     bot_id |-> body.bot_id, text |-> body.text]

\* the bodies message ts can turn out to hold
BodiesOf(ts) ==
    IF channel[ts].read
    THEN { [user |-> channel[ts].user, bot_id |-> channel[ts].bot_id,
            text |-> channel[ts].text] }
    ELSE Bodies

\* the channel once message ts was read and held body
Read(ts, body) ==
    [channel EXCEPT ![ts] = [thread_ts |-> @.thread_ts, user |-> body.user,
                             bot_id |-> body.bot_id, text |-> body.text,
                             read |-> TRUE]]

TopLevel == { ts \in DOMAIN channel : channel[ts].thread_ts = ts }

RepliesOf(thread_ts) == { ts \in DOMAIN channel : channel[ts].thread_ts = thread_ts }

Newest(S) == CHOOSE m \in S : \A o \in S : o <= m
Oldest(S) == CHOOSE m \in S : \A o \in S : m <= o

\* the k newest ids of S, newest first (conversations.history)
RECURSIVE NewestFirst(_, _)
NewestFirst(S, k) ==
    IF S = {} \/ k = 0 THEN <<>>
    ELSE << Newest(S) >> \o NewestFirst(S \ {Newest(S)}, k - 1)

\* the k oldest ids of S, oldest first (conversations.replies)
RECURSIVE OldestFirst(_, _)
OldestFirst(S, k) ==
    IF S = {} \/ k = 0 THEN <<>>
    ELSE << Oldest(S) >> \o OldestFirst(S \ {Oldest(S)}, k - 1)

Range(seq) == { seq[i] : i \in 1..Len(seq) }

\* msgs.sort(key=lambda m: float(m.get("ts", "0"))): a stable insertion sort
RECURSIVE Insert(_, _)
Insert(sorted, m) ==
    IF sorted = <<>> THEN << m >>
    ELSE IF Head(sorted) <= m THEN << Head(sorted) >> \o Insert(Tail(sorted), m)
    ELSE << m >> \o sorted

RECURSIVE SortByTs(_)
SortByTs(seq) ==
    IF seq = <<>> THEN <<>>
    ELSE Insert(SortByTs(SubSeq(seq, 1, Len(seq) - 1)), seq[Len(seq)])

\* [r for r in replies if float(r["ts"]) > float(thread_last)]
RECURSIVE NewerThan(_, _)
NewerThan(seq, thread_last) ==
    IF seq = <<>> THEN <<>>
    ELSE IF Head(seq) > thread_last
         THEN << Head(seq) >> \o NewerThan(Tail(seq), thread_last)
         ELSE NewerThan(Tail(seq), thread_last)

NoMsg == [ts |-> -1, thread_ts |-> -1, user |-> "", bot_id |-> FALSE, text |-> <<>>]

NoAnswer == [has_more |-> FALSE, next_cursor |-> "", error |-> FALSE, n |-> 0]

(***************************************************************************)
(* fetch_messages / fetch_replies: one iteration of the while loop.        *)
(***************************************************************************)
\* the loop condition without the test of the cursor
FetchContinuesOnHasMore(n_all, data) ==
    data.has_more /\ n_all < FetchLimit

\* lines 637-642: the loop goes on to another page
FetchContinues(n_all, data) ==
    data.has_more /\ n_all < FetchLimit /\ data.next_cursor # ""

\* what the transport may answer when `left` is what it still has to
\* deliver: a page of n messages, at most FetchLimit, with has_more and
\* next_cursor set as the API documents, or with has_more set and an empty
\* next_cursor
PageSizes(left) ==
    { k \in 0..FetchLimit : IF left = {} THEN k = 0 ELSE 1 <= k /\ k <= Cardinality(left) }

Answers(left) ==
    { [has_more |-> Cardinality(left) > k, error |-> FALSE, n |-> k,
       next_cursor |-> IF Cardinality(left) > k THEN "c" ELSE ""] :
        k \in PageSizes(left) }
    \cup { [has_more |-> TRUE, next_cursor |-> "", error |-> FALSE, n |-> k] :
             k \in PageSizes(left) }

\* slack_api raised SlackAPIError
ApiError == [has_more |-> FALSE, next_cursor |-> "", error |-> TRUE, n |-> 0]

\* the state of the while loop after the answer data with the page of it
FetchStep(data, page, result, done_pc) ==
    LET all == all_messages \o page
    IN  /\ answer' = data
        /\ IF ~data.error /\ FetchContinues(Len(all), data)
           THEN /\ all_messages' = all
                /\ cursor' = data.next_cursor
                /\ UNCHANGED << pc, msgs >>
           ELSE /\ msgs' = result
                /\ all_messages' = all
                /\ cursor' = ""
                /\ pc' = done_pc

\* a transport that guarantees no order: any n of the messages, in any order
AnyOrder(left, n) ==
    { page \in [1..n -> left] : \A i, j \in 1..n : i # j => page[i] # page[j] }

\* the pages a call can return: conversations.history answers newest first
\* and conversations.replies oldest first
Pages(order, left, n) ==
    CASE order = "history" -> { NewestFirst(left, n) }
      [] order = "replies" -> { OldestFirst(left, n) }
      [] order = "any" -> AnyOrder(left, n)

\* top-level messages the transport has for this call of fetch_messages
TopLeft == { ts \in TopLevel : ts > last_ts } \ Range(all_messages)

\* one call of slack_api("conversations.history") and the lines after it;
\* main() sorts what fetch_messages returns
fetch_messages_from(left, order) ==
    /\ pc = "fetch_top"
    /\ \E data \in Answers(left) \cup {ApiError} :
        \E page \in Pages(order, left, data.n) :
            FetchStep(data, page, SortByTs(all_messages \o page), "top")
    /\ UNCHANGED << env, api, ALLOWED_USERS, DEFAULT_MODEL, maps, disk, last_ts, todo,
                    cur_thread, cur, run, out, channel, nposts, handled >>

fetch_messages(left) == fetch_messages_from(left, "history")

FetchMessagesPage == fetch_messages(TopLeft)

\* the same call answered by a transport that guarantees no order
UnorderedMessagesPage == fetch_messages_from(TopLeft, "any")

\* a transport that delivers once more top-level messages this process has
\* fetched and dispatched, although their ids are not newer than oldest
TopReplayed ==
    { ts \in TopLevel : STARTUP_TS < ts /\ ts <= last_ts /\ handled[ts] > 0 }
    \ Range(all_messages)

ReplayMessagesPage ==
    /\ TopReplayed # {}
    /\ fetch_messages(TopLeft \cup TopReplayed)

\* replies the transport has for this call of fetch_replies: the parent
\* message, always, and the replies newer than oldest
RepliesLeft ==
    { ts \in RepliesOf(cur_thread.thread_ts) :
        ts = cur_thread.thread_ts \/ ts > cur_thread.thread_last }
    \ Range(all_messages)

\* one call of slack_api("conversations.replies") and the lines after it;
\* main() keeps the replies newer than thread_last
fetch_replies_from(left, order) ==
    /\ pc = "fetch_replies"
    /\ \E data \in Answers(left) \cup {ApiError} :
        \E page \in Pages(order, left, data.n) :
            FetchStep(data, page,
                      NewerThan(all_messages \o page, cur_thread.thread_last),
                      "replies")
    /\ UNCHANGED << env, api, ALLOWED_USERS, DEFAULT_MODEL, maps, disk, last_ts, todo,
                    cur_thread, cur, run, out, channel, nposts, handled >>

fetch_replies(left) == fetch_replies_from(left, "replies")

FetchRepliesPage == fetch_replies(RepliesLeft)

\* the same call answered by a transport that guarantees no order
UnorderedRepliesPage == fetch_replies_from(RepliesLeft, "any")

\* the same for the replies of a thread
RepliesReplayed ==
    { ts \in RepliesOf(cur_thread.thread_ts) :
        ts # cur_thread.thread_ts /\ ts <= cur_thread.thread_last /\ handled[ts] > 0 }
    \ Range(all_messages)

ReplayRepliesPage ==
    /\ pc = "fetch_replies"
    /\ RepliesReplayed # {}
    /\ fetch_replies(RepliesLeft \cup RepliesReplayed)

(***************************************************************************)
(* main(): the two for loops of one tick.                                  *)
(***************************************************************************)
\* lines 716 and 731: the message is not dispatched
Skipped(m) == m.bot_id \/ m.user = BOT_USER \/ Strip(m.text) = <<>>

\* handle() was called once more for message m
Count(m) ==
    [handled EXCEPT ![m.ts] = IF @ < DispatchCap THEN @ + 1 ELSE @]

\* the handler's effect on everything but active_threads
Apply(h) ==
    /\ sessions' = h.sessions
    /\ thread_cwd' = h.thread_cwd
    /\ thread_mode' = h.thread_mode
    /\ thread_model' = h.thread_model
    /\ disk' = h.disk
    /\ out' = h.out

\* sys.exit(0) in handle: SystemExit is re-raised by the loop
Exit ==
    /\ pc' = "exited"
    /\ msgs' = <<>>
    /\ todo' = {}

\* the list a fetch returned and the transport's answer are dropped
Fetched ==
    /\ all_messages' = <<>>
    /\ answer' = NoAnswer

\* run_claude returning as soon as the background thread is started
InRunClaudeDetached == FALSE

\* the calling flow is inside run_claude's while loop
InRunClaude == run.active

\* the locals of the tick go out of scope; out, cur and run record the
\* handler calls of one tick
EndTick ==
    /\ cur_thread' = [thread_ts |-> NoThread, thread_last |-> NoThread]
    /\ cur' = NoMsg
    /\ run' = NoRun
    /\ out' = <<>>
    /\ Fetched

\* lines 713-720: one iteration of the loop over top-level messages
DispatchTop ==
    /\ pc = "top" /\ msgs # <<>> /\ ~InRunClaude
    /\ \E body \in BodiesOf(Head(msgs)) :
        LET m == Msg(Head(msgs), body)
        IN  \E h \in { Handle(m) } :
            /\ channel' = Read(m.ts, body)
            /\ IF Skipped(m)
               THEN /\ last_ts' = m.ts
                    /\ msgs' = Tail(msgs)
                    /\ UNCHANGED << maps, disk, out, cur, run, pc, todo, handled >>
               ELSE /\ Apply(h)
                    /\ active_threads' = h.active_threads
                    /\ cur' = m
                    /\ handled' = Count(m)
                    /\ CASE h.end = "return" ->
                              /\ last_ts' = m.ts
                              /\ msgs' = Tail(msgs)
                              /\ run' = NoRun
                              /\ UNCHANGED << pc, todo >>
                         [] h.end = "exit" ->
                              /\ Exit
                              /\ run' = NoRun
                              /\ UNCHANGED last_ts
                         [] h.end = "run_claude" ->
                              /\ run' = StartRun(h.call)
                              /\ UNCHANGED << last_ts, msgs, pc, todo >>
    /\ Fetched
    /\ UNCHANGED << env, api, ALLOWED_USERS, DEFAULT_MODEL, cursor, cur_thread, nposts >>

\* line 723: the top-level loop is over, list(active_threads.keys())
StartReplies ==
    /\ pc = "top" /\ msgs = <<>> /\ ~InRunClaude
    /\ todo' = DOMAIN active_threads
    /\ pc' = "next_thread"
    /\ Fetched
    /\ UNCHANGED << env, api, ALLOWED_USERS, DEFAULT_MODEL, maps, disk, last_ts, cursor,
                    msgs, cur_thread, cur, run, out, channel, nposts, handled >>

\* lines 723-725: the next thread of the reply loop.  A dict lists its keys
\* in the order they were inserted; a thread's key is inserted when its
\* top-level message is dispatched, and those are dispatched in the order
\* of their ids.
NextThread ==
    /\ pc = "next_thread" /\ todo # {}
    /\ LET t == Oldest(todo)
       IN  /\ cur_thread' = [thread_ts |-> t, thread_last |-> active_threads[t]]
           /\ todo' = todo \ {t}
    /\ pc' = "fetch_replies"
    /\ UNCHANGED << env, api, ALLOWED_USERS, DEFAULT_MODEL, maps, disk, last_ts,
                    all_messages, cursor, msgs, cur, run, out, channel, nposts,
                    answer, handled >>

\* line 740: the tick is over, time.sleep(2), and the next tick begins
Sleep ==
    /\ pc = "next_thread" /\ todo = {}
    /\ pc' = "fetch_top"
    /\ EndTick
    /\ UNCHANGED << env, api, ALLOWED_USERS, DEFAULT_MODEL, maps, disk, last_ts, cursor,
                    msgs, todo, channel, nposts, handled >>

\* lines 728-733: one iteration of the loop over a thread's replies
DispatchReply ==
    /\ pc = "replies" /\ msgs # <<>> /\ ~InRunClaude
    /\ \E body \in BodiesOf(Head(msgs)) :
        LET r == Msg(Head(msgs), body)
            thread_ts == cur_thread.thread_ts
        IN  \E h \in { Handle(r) } :
            /\ channel' = Read(r.ts, body)
            /\ IF Skipped(r)
               THEN /\ active_threads' = Put(active_threads, thread_ts, r.ts)
                    /\ msgs' = Tail(msgs)
                    /\ UNCHANGED << sessions, thread_cwd, thread_mode, thread_model,
                                    disk, out, cur, run, pc, todo, handled >>
               ELSE /\ Apply(h)
                    /\ cur' = r
                    /\ handled' = Count(r)
                    /\ CASE h.end = "return" ->
                              /\ active_threads' = Put(h.active_threads, thread_ts, r.ts)
                              /\ msgs' = Tail(msgs)
                              /\ run' = NoRun
                              /\ UNCHANGED << pc, todo >>
                         [] h.end = "exit" ->
                              /\ active_threads' = h.active_threads
                              /\ Exit
                              /\ run' = NoRun
                         [] h.end = "run_claude" ->
                              /\ active_threads' = h.active_threads
                              /\ run' = StartRun(h.call)
                              /\ UNCHANGED << msgs, pc, todo >>
    /\ Fetched
    /\ UNCHANGED << env, api, ALLOWED_USERS, DEFAULT_MODEL, last_ts, cursor, cur_thread,
                    nposts >>

\* the loop over a thread's replies is over
EndReplies ==
    /\ pc = "replies" /\ msgs = <<>> /\ ~InRunClaude
    /\ pc' = "next_thread"
    /\ Fetched
    /\ UNCHANGED << env, api, ALLOWED_USERS, DEFAULT_MODEL, maps, disk, last_ts, cursor,
                    msgs, todo, cur_thread, cur, run, out, channel, nposts,
                    handled >>

(***************************************************************************)
(* run_claude after thread.start(): the calling flow stays in the while    *)
(* loop of lines 303-313 until the background thread sets done.            *)
(***************************************************************************)
\* lines 303-313: one iteration.  The join returns after d time units: at
\* once when the subprocess ends (fin), after JoinTimeout otherwise.  The
\* subprocess never outlives ClaudeTimeout.  ok is whether send() of a first
\* progress message succeeds.
Join ==
    /\ run.active /\ ~run.done
    /\ \E d \in 0..JoinTimeout, fin \in BOOLEAN, ok \in BOOLEAN :
        LET now == run.now + d
            due == ProgressDue(run.call.thread_ts, now, now, run.last_update)
        IN  /\ d < JoinTimeout => fin
            /\ now <= ClaudeTimeout
            /\ now = ClaudeTimeout => fin
            /\ ~(due /\ ~run.progress_ts) => ok
            /\ run' = [run EXCEPT !.now = now, !.done = fin,
                          !.last_update = IF due THEN now ELSE @,
                          !.progress_ts = IF due /\ ~@ THEN ok ELSE @,
                          !.send_failed = @ \/ (due /\ ~ok)]
            /\ out' = out \o
                 (IF ~due THEN <<>>
                  ELSE IF run.progress_ts THEN << Ev("edit_progress", now) >>
                  ELSE IF ok THEN << Ev("send_progress", now) >>
                  ELSE << Ev("send_progress_failed", now) >>)
    /\ UNCHANGED << env, api, ALLOWED_USERS, DEFAULT_MODEL, maps, disk, last_ts, pc,
                    all_messages, cursor, msgs, todo, cur_thread, cur, channel,
                    nposts, answer, handled >>

\* lines 315-336 and 557-562, then the statement of main() that follows the
\* call of handle (line 720 or 733), or main()'s except clause
ClaudeReturn ==
    /\ run.active /\ run.done
    /\ \E kind \in OutputKinds, sid \in {<<>>, SID_A} :
        LET res == ClaudeResult(kind, sid)
            thread_ts == run.call.thread_ts
            new_sessions == IF res.new_sid # <<>>
                            THEN Put(sessions, thread_ts, res.new_sid) ELSE sessions
        IN  /\ kind \notin {"object", "object_no_result", "object_bad_result"}
                  => sid = <<>>
            /\ sessions' = new_sessions
            /\ disk' = IF res.new_sid # <<>>
                       THEN Snapshot(new_sessions, thread_cwd, thread_mode,
                                     thread_model, active_threads)
                       ELSE disk
            /\ out' = out
                 \o (IF run.progress_ts THEN << Ev("edit_completed", run.now) >> ELSE <<>>)
                 \o (IF res.sent THEN << Ev("send_result", run.now) >> ELSE <<>>)
                 \o (IF res.raises THEN << Ev("raise", run.now) >> ELSE <<>>)
            /\ run' = [run EXCEPT !.active = FALSE, !.new_sid = res.new_sid]
            /\ IF res.raises
               THEN /\ pc' = "fetch_top"
                    /\ msgs' = <<>>
                    /\ todo' = {}
                    /\ UNCHANGED << last_ts, active_threads >>
               ELSE /\ msgs' = Tail(msgs)
                    /\ UNCHANGED << pc, todo >>
                    /\ IF pc = "top"
                       THEN last_ts' = cur.ts /\ UNCHANGED active_threads
                       ELSE /\ active_threads' =
                                Put(active_threads, cur_thread.thread_ts, cur.ts)
                            /\ UNCHANGED last_ts
    /\ UNCHANGED << env, api, ALLOWED_USERS, DEFAULT_MODEL, thread_cwd, thread_mode,
                    thread_model, all_messages, cursor, cur_thread, cur, channel,
                    nposts, answer, handled >>

(***************************************************************************)
(* The users of the channel.                                               *)
(***************************************************************************)
Stamps == 0..(STARTUP_TS + env.posts)

\* somebody posts a message: a new top-level message, or a reply in a
\* thread.  The channel is read by the fetch calls only, so posting is
\* modelled at the start of a tick, before the first fetch call.
Post ==
    /\ pc = "fetch_top" /\ all_messages = <<>>
    /\ nposts < env.posts
    /\ LET ts == STARTUP_TS + nposts + 1
       IN  \E thread_ts \in TopLevel \cup DOMAIN active_threads \cup {ts} :
              channel' = [x \in DOMAIN channel \cup {ts} |->
                            IF x = ts THEN Unread(thread_ts) ELSE channel[x]]
    /\ nposts' = nposts + 1
    /\ UNCHANGED << env, api, ALLOWED_USERS, DEFAULT_MODEL, maps, disk, last_ts, pc,
                    all_messages, cursor, msgs, todo, cur_thread, cur, run, out,
                    answer, handled >>

(***************************************************************************)
(* main() up to the while loop: load_state, the startup message.           *)
(***************************************************************************)
EmptyDisk == Snapshot(Empty, Empty, Empty, Empty, Empty)

\* a state file left by an earlier run, in which "fix" was posted as
\* message 0 and answered: thread 0 holds a session, a mode and a model, and
\* is polled for replies
OldDisk ==
    Snapshot(Put(Empty, 0, SID_A), Empty, Put(Empty, 0, <<"p","l","a","n">>),
             Put(Empty, 0, <<"o","p","u","s">>), Put(Empty, 0, 0))

OldChannel ==
    [x \in {0} |-> [thread_ts |-> 0, user |-> "U1", bot_id |-> FALSE,
                    text |-> <<"f","i","x">>, read |-> TRUE]]

\* the state after load_state and the startup message
Started ==
    /\ sessions = disk.sessions
    /\ thread_cwd = disk.thread_cwd
    /\ thread_mode = disk.thread_mode
    /\ thread_model = disk.thread_model
    /\ active_threads = disk.active_threads
    /\ last_ts = STARTUP_TS
    /\ pc = "fetch_top"
    /\ all_messages = <<>>
    /\ cursor = ""
    /\ msgs = <<>>
    /\ todo = {}
    /\ cur_thread = [thread_ts |-> NoThread, thread_last |-> NoThread]
    /\ cur = NoMsg
    /\ run = NoRun
    /\ out = <<>>
    /\ channel = IF disk = OldDisk THEN OldChannel ELSE [x \in {} |-> Unread(0)]
    /\ nposts = 0
    /\ answer = NoAnswer
    /\ handled = [t \in Stamps |-> IF t = 0 /\ disk = OldDisk THEN 1 ELSE 0]
    /\ api = NoApiCall

\* every text, from listed and unlisted users, under every configuration
Init ==
    /\ env = [bodies |-> BodiesIn(Users, Texts), posts |-> MaxPosts]
    /\ ALLOWED_USERS \in { {}, {"U1"} }
    /\ DEFAULT_MODEL \in { <<>>, <<"o","p","u","s">> }
    /\ disk \in { EmptyDisk, OldDisk }
    /\ Started

Next ==
    \/ Post
    \/ FetchMessagesPage
    \/ DispatchTop
    \/ StartReplies
    \/ NextThread
    \/ FetchRepliesPage
    \/ DispatchReply
    \/ EndReplies
    \/ Sleep
    \/ Join
    \/ ClaudeReturn

Spec == Init /\ [][Next]_vars

\* one configuration (everybody allowed, no default model), prompts and
\* shell commands of one user, more messages
PollTexts == { <<"f","i","x">>, <<"!","l","s">> }

Polling(posts) ==
    /\ env = [bodies |-> BodiesIn({"U1"}, PollTexts), posts |-> posts]
    /\ ALLOWED_USERS = {}
    /\ DEFAULT_MODEL = <<>>
    /\ disk \in { EmptyDisk, OldDisk }
    /\ Started

InitPoll == Polling(PollPosts)

SpecPoll == InitPoll /\ [][Next]_vars

\* the same with cd commands, and executions that follow them
CdTexts == { <<"!","c","d"," ","/","l">>, <<"!","c","d"," ","/","x">>, <<"!","c","d"," ",".",".">>, <<"!","l","s">>, <<"f","i","x">> }

InitCd ==
    /\ env = [bodies |-> BodiesIn({"U1"}, CdTexts), posts |-> PollPosts]
    /\ ALLOWED_USERS = {}
    /\ DEFAULT_MODEL = <<>>
    /\ disk \in { EmptyDisk, OldDisk }
    /\ Started

SpecCd == InitCd /\ [][Next]_vars

\* the same with session commands and prompts
ResumeTexts == { <<"r","e","s","u","m","e">>, <<"r","e","s","u","m","e"," ","x">>, <<"f","i","x">> }

InitResume ==
    /\ env = [bodies |-> BodiesIn({"U1"}, ResumeTexts), posts |-> PollPosts]
    /\ ALLOWED_USERS = {}
    /\ DEFAULT_MODEL = <<>>
    /\ disk \in { EmptyDisk, OldDisk }
    /\ Started

SpecResume == InitResume /\ [][Next]_vars

\* the program polling a transport that may replay messages
NextReplay == Next \/ ReplayMessagesPage \/ ReplayRepliesPage

InitReplay == Polling(MaxPosts)

SpecReplay == InitReplay /\ [][NextReplay]_vars

\* the program polling a transport that guarantees no order of delivery
NextUnordered == Next \/ UnorderedMessagesPage \/ UnorderedRepliesPage

InitUnordered == Polling(PollPosts)

SpecUnordered == InitUnordered /\ [][NextUnordered]_vars

\* what the state file can hold during save_state: open(STATE_FILE, "w")
\* empties the file in place and json.dump writes the new document into it
TruncatedFile == [document |-> "empty"]

PartialFile(new) == [document |-> "partial", of |-> new]

SaveStages(old, new) == { old, TruncatedFile, PartialFile(new), new }

\* a complete document, as load_state can read it
Complete(file) == DOMAIN file = DOMAIN EmptyDisk

\* the process is killed inside the save_state of a handler whose save
\* changes the file; the memory of the process is gone with it
KilledInSave ==
    /\ pc \in {"top", "replies"} /\ msgs # <<>> /\ ~InRunClaude
    /\ \E body \in BodiesOf(Head(msgs)) :
        LET m == Msg(Head(msgs), body)
        IN  \E h \in { Handle(m) } :
            /\ ~Skipped(m)
            /\ h.disk # disk
            /\ channel' = Read(m.ts, body)
            /\ disk' \in SaveStages(disk, h.disk)
    /\ pc' = "killed"
    /\ UNCHANGED << env, api, ALLOWED_USERS, DEFAULT_MODEL, maps, last_ts,
                    all_messages, cursor, msgs, todo, cur_thread, cur, run,
                    out, nposts, answer, handled >>

\* the program with a kill signal that can arrive during a save
NextKill == Next \/ KilledInSave

SpecKill == Init /\ [][NextKill]_vars

\* more messages than the cap of fetch_messages can arrive between two ticks
BurstTexts == { <<"!","l","s">>, <<"f","i","x">> }

InitBurst ==
    /\ env = [bodies |-> BodiesIn({"U1"}, BurstTexts), posts |-> FetchLimit + 1]
    /\ ALLOWED_USERS = {}
    /\ DEFAULT_MODEL = <<>>
    /\ disk = EmptyDisk
    /\ Started

SpecBurst == InitBurst /\ [][Next]_vars

\* the text of the startup message, and the message as the channel holds it
STARTUP_MSG == <<"u","p">>

StartupMessage(ts) ==
    [thread_ts |-> ts, user |-> BOT_USER, bot_id |-> TRUE, text |-> STARTUP_MSG,
     read |-> TRUE]

\* the process ends (stop, a crash, a kill between two steps of the poll
\* loop) and is started again: load_state reads the maps from the state file
\* (text keys and text values, which json reads as it wrote them), the
\* startup message gets the next id of the channel and is the new cursor
Restart ==
    /\ ~InRunClaude
    /\ nposts < env.posts
    /\ sessions' = disk.sessions
    /\ thread_cwd' = disk.thread_cwd
    /\ thread_mode' = disk.thread_mode
    /\ thread_model' = disk.thread_model
    /\ active_threads' = disk.active_threads
    /\ LET ts == STARTUP_TS + nposts + 1
       IN  /\ channel' = [x \in DOMAIN channel \cup {ts} |->
                            IF x = ts THEN StartupMessage(ts) ELSE channel[x]]
           /\ last_ts' = ts
    /\ nposts' = nposts + 1
    /\ pc' = "fetch_top"
    /\ cursor' = ""
    /\ msgs' = <<>>
    /\ todo' = {}
    /\ EndTick
    /\ UNCHANGED << env, api, ALLOWED_USERS, DEFAULT_MODEL, disk, handled >>

RestartTexts == { <<"s","t","o","p">>, <<"!","l","s">>, <<"f","i","x">> }

InitRestart ==
    /\ env = [bodies |-> BodiesIn({"U1"}, RestartTexts), posts |-> PollPosts]
    /\ ALLOWED_USERS = {}
    /\ DEFAULT_MODEL = <<>>
    /\ disk \in { EmptyDisk, OldDisk }
    /\ Started

NextRestart == Next \/ Restart

SpecRestart == InitRestart /\ [][NextRestart]_vars

\* the program running on: a call of slack_api in a fetch loop is answered
\* in the end
InitLive == Polling(MaxPosts)

FetchPage == FetchMessagesPage \/ FetchRepliesPage

SpecLive == InitLive /\ [][Next]_vars /\ WF_vars(FetchPage)

\* a transport that answers has_more with a fresh non-empty next_cursor and
\* a page without messages
Cursors == { "c", "d" }

StallAnswers ==
    { [has_more |-> TRUE, next_cursor |-> c, error |-> FALSE, n |-> 0] :
        c \in Cursors \ {cursor} }

StalledMessagesPage ==
    /\ pc = "fetch_top"
    /\ \E data \in StallAnswers :
        FetchStep(data, <<>>, SortByTs(all_messages), "top")
    /\ UNCHANGED << env, api, ALLOWED_USERS, DEFAULT_MODEL, maps, disk, last_ts, todo,
                    cur_thread, cur, run, out, channel, nposts, handled >>

StalledRepliesPage ==
    /\ pc = "fetch_replies"
    /\ \E data \in StallAnswers :
        FetchStep(data, <<>>, NewerThan(all_messages, cur_thread.thread_last),
                  "replies")
    /\ UNCHANGED << env, api, ALLOWED_USERS, DEFAULT_MODEL, maps, disk, last_ts, todo,
                    cur_thread, cur, run, out, channel, nposts, handled >>

StalledPage == StalledMessagesPage \/ StalledRepliesPage

NextStall == Next \/ StalledPage

InitStall == Polling(MaxPosts)

SpecStall ==
    InitStall /\ [][NextStall]_vars /\ WF_vars(FetchPage \/ StalledPage)

\* the calls of slack_api, on their own
InitApi == Polling(MaxPosts)

NextApi == SlackCall \/ SlackAttempt

SpecApi == InitApi /\ [][NextApi]_vars /\ WF_vars(SlackAttempt)

(***************************************************************************)
(* Properties.                                                             *)
(***************************************************************************)
\* the handler was called for message cur, and out is what it did
Handled == cur # NoMsg

\* the kinds of the events of out, in order
Kinds(o) == [i \in 1..Len(o) |-> o[i].kind]

Has(o, k) == \E i \in 1..Len(o) : o[i].kind = k

\* the user is let in by the allow-list as configured
Listed(user) == ALLOWED_USERS = {} \/ user \in ALLOWED_USERS

\* the text after the "!" of a shell message
ShellCommand(text) == Strip(Drop(Strip(text), 1))

IsShellMessage(text) == StartsWith(Strip(text), <<"!">>) /\ ShellCommand(text) # <<>>

\* the command matches no allow-listed prefix and is no cd command
NotAllowListed(cmd) ==
    \A c \in { Strip(Lower(cmd)) } :
       /\ \A i \in 1..Len(ALLOWED_SHELL_PREFIXES) :
             ~StartsWith(c, ALLOWED_SHELL_PREFIXES[i])
       /\ ~StartsWith(c, <<"c","d"," ">>)

\* command texts given to run_shell directly
ShellTexts ==
    { <<"r","m"," ","x">>, <<"R","M"," ","x">>, <<"c","d">>, <<"c","d","x">>, <<" ","s","u","d","o"," ","l","s">>, <<"g","i","t"," ","p","u","s","h">>, <<"l"," ","s">>,
      <<"p","y","t","h","o","n">>, <<";","l","s">>, <<"l","s">>, <<" ","L","S"," ","-","l">>, <<"c","d"," ","/","d">>, <<"g","i","t"," ","s","t","a","t","u","s">>, <<>> }

\* C1: a shell message of a permitted user whose command matches no
\* allow-listed prefix and is no cd command gets the "not allowed" result
\* and no subprocess is started; and in the state the handler of a shell
\* message leaves, run_shell does so for every such command text.
C1_DisallowedShellNotRun ==
    (Handled /\ Listed(cur.user) /\ IsShellMessage(cur.text))
    => /\ NotAllowListed(ShellCommand(cur.text))
          => /\ Kinds(out) = << "shell_not_allowed", "send_shell_result" >>
             /\ ~Has(out, "subprocess_shell")
             /\ ~InRunClaude
       /\ \A c \in ShellTexts :
             NotAllowListed(c)
             => run_shell(c, get_cwd(thread_cwd, cur.thread_ts))
                  = << Ev("shell_not_allowed", c) >>

C1_Witness ==
    /\ Handled /\ cur.text = <<"!","r","m"," ","x">> /\ Listed(cur.user)
    /\ Has(out, "shell_not_allowed")

\* the message m as posted by somebody else, in the same thread
Variant(m, body) ==
    [ts |-> m.ts, thread_ts |-> m.thread_ts, user |-> body.user,
     bot_id |-> body.bot_id, text |-> body.text]

\* C2: with a non-empty allow-list, handling a message of a user who is not
\* on it, whatever its text, sends the denial and does nothing else: the
\* five maps and the state file stay as they are, nothing is started, the
\* process goes on.  With an empty allow-list nobody is denied.  This is
\* so of every message of the channel in every state, with every body a
\* message not yet read may hold, and of the message that was handled.
C2_DeniedUserNoEffect ==
    /\ \A ts \in DOMAIN channel : \A body \in BodiesOf(ts) :
          LET m == Msg(ts, body)
          IN  \A h \in { Handle(m) } :
              IF ALLOWED_USERS # {} /\ m.user \notin ALLOWED_USERS
              THEN /\ Kinds(h.out) = << "send_not_authorized" >>
                   /\ h.end = "return"
                   /\ << h.sessions, h.thread_cwd, h.thread_mode, h.thread_model,
                         h.active_threads >> = maps
                   /\ h.disk = disk
              ELSE ~Has(h.out, "send_not_authorized")
    /\ (Handled /\ ~Listed(cur.user))
          => Kinds(out) = << "send_not_authorized" >> /\ ~InRunClaude /\ pc # "exited"

C2_Witness ==
    /\ Handled /\ ALLOWED_USERS # {} /\ cur.user \notin ALLOWED_USERS
    /\ cur.text = <<"s","t","o","p">>
    /\ Kinds(out) = << "send_not_authorized" >>

\* what a status message posted next in the thread of cur is answered
StatusNow == Handle(Variant(cur, [user |-> cur.user, bot_id |-> FALSE,
                                  text |-> <<"s","t","a","t","u","s">>])).out[1].arg

\* C3: after new is handled in a thread, status in that thread reports
\* mode default, model default and no session id, and the thread's working
\* directory.
C3_StatusAfterNew ==
    (Handled /\ Kinds(out) = << "send_new_session" >>)
    => /\ StatusNow.mode = W_default
       /\ StatusNow.model = W_default
       /\ StatusNow.sessions = {}
       /\ StatusNow.cwd = get_cwd(thread_cwd, cur.thread_ts)

\* the text is <word> <name>, in any case
IsCommand(text, word, name) ==
    LET parts == SplitOnce(Lower(Strip(text)))
    IN  Len(parts) = 2 /\ parts[1] = word /\ parts[2] = name

\* C4: after "model <name>" the thread's model is <name>, after "model
\* default" the thread has no model; the same for "mode".
C4_ModeAndModelStored ==
    (Handled /\ Listed(cur.user))
    => /\ \A i \in 1..Len(MODELS) :
             IsCommand(cur.text, <<"m","o","d","e","l">>, MODELS[i])
             => Get(thread_model, cur.thread_ts, <<>>) = MODELS[i]
       /\ IsCommand(cur.text, <<"m","o","d","e","l">>, W_default)
             => cur.thread_ts \notin DOMAIN thread_model
       /\ \A i \in 1..Len(MODES) :
             IsCommand(cur.text, <<"m","o","d","e">>, MODES[i])
             => Get(thread_mode, cur.thread_ts, <<>>) = MODES[i]
       /\ IsCommand(cur.text, <<"m","o","d","e">>, W_default)
             => cur.thread_ts \notin DOMAIN thread_mode

\* the text is a control command: a control word, the last three with an
\* optional argument
IsControl(text) ==
    LET low   == Lower(Strip(text))
        parts == SplitOnce(low)
    IN  \/ low \in { <<"s","t","o","p">>, <<"h","e","l","p">>, <<"s","t","a","t","u","s">>, <<"n","e","w">> }
        \/ parts # <<>> /\ parts[1] \in { <<"m","o","d","e">>, <<"m","o","d","e","l">>, <<"r","e","s","u","m","e">> }

\* C5: a message that is no control command and does not start with "!" is
\* handed to the assistant: the handler's first act is the acknowledgment
\* of the assistant path.
C5_OnlyControlWordsAreCommands ==
    (Handled /\ Listed(cur.user) /\ ~IsControl(cur.text)
       /\ ~StartsWith(Strip(cur.text), <<"!">>))
    => out # <<>> /\ out[1].kind = "send_ack"

\* C7: in the loop over top-level messages, when the processing of a
\* message ends (skipped, handler returned, handler failed) the cursor is
\* that message's id; the cursor never decreases.
C7_CursorFollowsMessage ==
    [][ /\ (pc = "top" /\ msgs # <<>> /\ ~run'.active /\ pc' # "exited")
           => last_ts' = Head(msgs)
        /\ last_ts' >= last_ts ]_vars

\* the invocation that has just returned ran longer than the progress
\* interval, for a thread, and no send failed
LongRun ==
    /\ ~run.active /\ run.done
    /\ run.now > ProgressInterval
    /\ run.call.thread_ts # NoThread
    /\ ~run.send_failed

\* C9: such an invocation posted a progress message, edited it to
\* "completed" afterwards, and sent its result after both.
C9_ProgressBeforeResult ==
    LongRun
    => \E i \in 1..Len(out) :
          /\ out[i].kind = "send_progress"
          /\ \E j \in (i + 1)..Len(out) :
                /\ out[j].kind = "edit_completed"
                /\ \A k \in 1..Len(out) :
                      out[k].kind \in {"send_result", "raise"} => k > j
                /\ \A k \in (j + 1)..Len(out) :
                      out[k].kind \notin {"send_progress", "edit_progress"}

C9_Witness ==
    LongRun /\ Has(out, "send_progress") /\ Has(out, "send_result")

\* the cursor that guards message ts has reached its id: the global poll
\* cursor for a top-level message, the marker of its thread for a reply
CursorPast(ts) ==
    IF channel[ts].thread_ts = ts
    THEN last_ts >= ts
    ELSE /\ channel[ts].thread_ts \in DOMAIN active_threads
         /\ active_threads[channel[ts].thread_ts] >= ts

\* C6: a message that was dispatched and whose cursor has reached its id
\* is not dispatched again, whatever a later poll delivers.
C6_NoSecondDispatch ==
    [][ \A ts \in DOMAIN channel :
          (handled[ts] > 0 /\ CursorPast(ts)) => handled'[ts] = handled[ts] ]_vars

\* an assistant invocation was started and has not completed
InFlight == run.active /\ ~run.done

\* a step of the poll loop other than run_claude's own
PollStep ==
    \/ FetchMessagesPage \/ DispatchTop \/ StartReplies \/ NextThread
    \/ FetchRepliesPage \/ DispatchReply \/ EndReplies \/ Sleep

\* a message of another thread than the invocation's waits to be read
OtherThreadWaits ==
    \E ts \in DOMAIN channel :
        ~channel[ts].read /\ channel[ts].thread_ts # run.call.thread_ts

\* C8 as stated: while an invocation is in flight the poll loop can take
\* its next step.
C8_PollingContinues == InFlight => ENABLED PollStep

\* C8 as amended: while an invocation is in flight the poll loop takes no
\* step: nothing is fetched, no message is dispatched or consumed, the
\* cursors stay, and the invocation in flight stays the only one.
C8_PollingWaits ==
    [][ InFlight
        => /\ handled' = handled
           /\ channel' = channel
           /\ << pc', msgs', last_ts', active_threads' >>
                = << pc, msgs, last_ts, active_threads >>
           /\ run'.active /\ run'.call = run.call ]_vars

C8_Witness ==
    /\ InFlight /\ run.now > 0
    /\ OtherThreadWaits

\* the transport answered has_more with an empty next_cursor
EmptyCursor == ~answer.error /\ answer.has_more /\ answer.next_cursor = ""

\* C10: on the answer has_more with an empty next_cursor, fetch_messages
\* and fetch_replies return, and what is returned are the messages of all
\* pages received, this one included.
C10_EmptyCursorEndsFetch ==
    EmptyCursor
    => /\ pc \in {"top", "replies"}
       /\ cursor = ""
       /\ Len(all_messages) >= answer.n
       /\ pc = "top" => msgs = SortByTs(all_messages)
       /\ pc = "replies" => msgs = NewerThan(all_messages, cur_thread.thread_last)

C10_Witness ==
    /\ EmptyCursor /\ pc = "top"
    /\ Len(all_messages) = 1 /\ Len(all_messages) < FetchLimit
    /\ msgs = all_messages

\* the directories of the file system, by their canonical names
Directories == { <<"/">>, <<"/","d">>, <<"/","h","o","m","e">> }

\* the canonical form of the paths users type
CanonicalOf(path) ==
    CASE path = <<"/","l">> -> <<"/","d">>
      [] path = <<".",".">> -> <<"/">>
      [] OTHER -> path

\* the message is !cd <path>
IsCd(text) == StartsWith(Lower(ShellCommand(text)), <<"c","d"," ">>)

CdPath(text) == Strip(Drop(ShellCommand(text), 3))

\* the working directory the executions of out and run ran with
RanIn(dir) ==
    /\ \A i \in 1..Len(out) : out[i].kind = "subprocess_shell" => out[i].arg = dir
    /\ run.active => run.call.cwd = dir

\* every stored working directory is a canonical name of a directory; an
\* accepted !cd has stored the canonical form of its path, a rejected one
\* was answered "not found"; the executions of a thread ran in the
\* directory stored for it
CwdCanonical ==
    /\ \A t \in DOMAIN thread_cwd : thread_cwd[t] \in Directories
    /\ (Handled /\ StartsWith(cur.text, <<"!">>) /\ IsCd(cur.text))
         => IF CanonicalOf(CdPath(cur.text)) \in Directories
            THEN /\ thread_cwd[cur.thread_ts] = CanonicalOf(CdPath(cur.text))
                 /\ Kinds(out) = << "send_cwd" >>
            ELSE Kinds(out) = << "send_not_found" >>
    /\ Handled => RanIn(get_cwd(thread_cwd, cur.thread_ts))

\* the step that handles a !cd whose canonical target is no directory
\* leaves thread_cwd as it was
RejectedCdKeepsCwd ==
    (handled' # handled /\ StartsWith(cur'.text, <<"!">>) /\ IsCd(cur'.text)
       /\ CanonicalOf(CdPath(cur'.text)) \notin Directories)
    => thread_cwd' = thread_cwd

\* C11: in every state the stored working directories are canonical names
\* of directories and the executions of a thread ran in the directory
\* stored for it, an accepted !cd stores the canonical form of its path,
\* and a !cd whose canonical target is no directory changes nothing.
C11_StoredCwdCanonical == []CwdCanonical /\ [][RejectedCdKeepsCwd]_vars

\* a shell command ran in the directory an earlier !cd /l of the thread
\* stored
C11_Witness ==
    /\ Handled /\ cur.text = <<"!","l","s">>
    /\ cur.thread_ts \in DOMAIN thread_cwd
    /\ thread_cwd[cur.thread_ts] = <<"/","d">>
    /\ \E i \in 1..Len(out) : out[i] = Ev("subprocess_shell", <<"/","d">>)

\* texts given to parse_prefix directly
PrefixInputs ==
    { <<"a","u","t","o",":"," ","o","p","u","s",":"," ","f","i","x"," ","t","h","e"," ","b","u","g">>, <<"f","i","x"," ","t","h","e"," ","b","u","g">>, <<"r","e","a","d","o","n","l","y",":"," ","f","i","x">>,
      <<"A","U","T","O",":"," ","O","p","u","s",":","x">>, <<"o","p","u","s",":"," ","a","u","t","o",":"," ","f","i","x">>, <<"y","o","l","o",":","x">>, <<"a","u","t","o",":">>,
      <<"p","l","a","n",":"," ","h","a","i","k","u",":">>, <<"m","o","d","e","r","n",":"," ","x">>, <<"s","o","n","n","e","t",":"," "," ","y">>, <<"p","l","a","n",":"," ","p","l","a","n",":"," ","z">> }

ModeNames == { <<"p","l","a","n">>, <<"r","e","a","d","o","n","l","y">>, <<"a","u","t","o">>, <<"y","o","l","o">> }

ModelNames == { <<"s","o","n","n","e","t">>, <<"o","p","u","s">>, <<"h","a","i","k","u">> }

\* parse_prefix on the three texts of the specification, and the range of
\* its results
ParsesPrefixes ==
    /\ parse_prefix(<<"a","u","t","o",":"," ","o","p","u","s",":"," ","f","i","x"," ","t","h","e"," ","b","u","g">>)
          = [mode |-> <<"a","u","t","o">>, model |-> <<"o","p","u","s">>, remaining |-> <<"f","i","x"," ","t","h","e"," ","b","u","g">>]
    /\ parse_prefix(<<"f","i","x"," ","t","h","e"," ","b","u","g">>)
          = [mode |-> <<>>, model |-> <<>>, remaining |-> <<"f","i","x"," ","t","h","e"," ","b","u","g">>]
    /\ parse_prefix(<<"r","e","a","d","o","n","l","y",":"," ","f","i","x">>)
          = [mode |-> <<"r","e","a","d","o","n","l","y">>, model |-> <<>>, remaining |-> <<"f","i","x">>]
    /\ \A t \in PrefixInputs : \A p \in { parse_prefix(t) } :
          /\ p.mode \in ModeNames \cup { <<>> }
          /\ p.model \in ModelNames \cup { <<>> }
          /\ (p.mode = <<>> /\ p.model = <<>>) => p.remaining = t
          /\ p.remaining # <<>>

\* a prompt was handed to run_claude
Prompted == Handled /\ run.call # NoCall

\* C12: where the handler has called parse_prefix, it parses the texts of
\* the specification as stated and returns modes and models of the two
\* lists only; the prefixes of the handled message are the thread's mode
\* and model, and the invocation runs with them, or with what the thread
\* stored before where the message has no prefix.
C12_PrefixParsedAndStored ==
    Prompted
    => /\ ParsesPrefixes
       /\ \A p \in { parse_prefix(Strip(cur.text)) } :
             /\ run.call.prompt = p.remaining
             /\ p.mode # <<>>
                   => /\ Get(thread_mode, cur.thread_ts, <<>>) = p.mode
                      /\ Get(disk.thread_mode, cur.thread_ts, <<>>) = p.mode
             /\ p.model # <<>>
                   => /\ Get(thread_model, cur.thread_ts, <<>>) = p.model
                      /\ Get(disk.thread_model, cur.thread_ts, <<>>) = p.model
             /\ run.call.mode = Get(thread_mode, cur.thread_ts, <<>>)
             /\ run.call.model = Get(thread_model, cur.thread_ts, <<>>)
       /\ cur.text = <<"a","u","t","o",":"," ","o","p","u","s",":"," ","f","i","x">>
             => /\ run.call.mode = <<"a","u","t","o">> /\ run.call.model = <<"o","p","u","s">>
                /\ run.call.prompt = <<"f","i","x">>

C12_Witness ==
    /\ Prompted /\ cur.text = <<"a","u","t","o",":"," ","o","p","u","s",":"," ","f","i","x">>
    /\ thread_mode[cur.thread_ts] = <<"a","u","t","o">>
    /\ thread_model[cur.thread_ts] = <<"o","p","u","s">>

\* the call has made at most Retries attempts, goes on only while attempts
\* are left, has returned exactly on the answer ok, and has ended at once
\* on an application error other than the rate limit
BoundedAttempts ==
    /\ api.attempt = Len(api.log) /\ api.attempt <= Retries
    /\ api.status = "calling" => api.attempt < Retries
    /\ api.status = "returned"
         <=> (api.log # <<>> /\ api.log[Len(api.log)] = "ok")
    /\ \A i \in 1..Len(api.log) :
         api.log[i] \in {"ok", "error"} => i = Len(api.log) /\ api.status # "calling"
    /\ (api.log # <<>> /\ api.log[Len(api.log)] = "error") => api.status = "raised"

\* C13: every call of slack_api makes at most three attempts and ends, with
\* a result or with SlackAPIError, whatever the remote answers; an
\* application error that is not the rate limit ends it on that attempt.
C13_BoundedRetries ==
    /\ []BoundedAttempts
    /\ (api.status = "calling") ~> (api.status \in {"returned", "raised"})

C13_Witness ==
    /\ api.status = "raised"
    /\ api.log = << "ratelimited", "network", "http" >>

\* the step ends the processing of the reply at the head of msgs
ReplyProcessed == pc = "replies" /\ msgs # <<>> /\ ~run'.active

\* C14: in the loop over a thread's replies, when the processing of a
\* reply ends (skipped, denied, handler returned, handler failed, stop) the
\* thread's last-seen marker is that reply's id.
C14_MarkerFollowsReply ==
    [][ ReplyProcessed
        => /\ cur_thread.thread_ts \in DOMAIN active_threads'
           /\ active_threads'[cur_thread.thread_ts] = Head(msgs) ]_vars

\* the same for the outcomes other than stop
MarkerFollowsReplyUnlessStopped ==
    [][ (ReplyProcessed /\ pc' # "exited")
        => /\ cur_thread.thread_ts \in DOMAIN active_threads'
           /\ active_threads'[cur_thread.thread_ts] = Head(msgs) ]_vars

Ascending(s) == \A i, j \in 1..Len(s) : i < j => s[i] < s[j]

\* the loop over the top-level messages of a tick dispatches in ascending order
TopLevelAscending == pc = "top" => Ascending(msgs)

\* C15: the messages a loop of the tick has still to dispatch, top-level
\* messages or the replies of one thread, are in ascending id order (the loops
\* take them from the head), whatever the order the transport delivered.
C15_DispatchAscending == pc \in {"top", "replies"} => Ascending(msgs)

\* what save_state would write now
InMemory ==
    Snapshot(sessions, thread_cwd, thread_mode, thread_model, active_threads)

\* C16: while no handler is running (the poll loop is between two handled
\* messages) the state file holds the in-memory maps.
C16_SnapshotCurrent == ~run.active => disk = InMemory

\* the same for the maps other than the active-thread markers
SnapshotCurrentButMarkers ==
    ~run.active =>
        /\ disk.sessions = sessions
        /\ disk.thread_cwd = thread_cwd
        /\ disk.thread_mode = thread_mode
        /\ disk.thread_model = thread_model

\* C17: when the process was killed during save_state, the state file holds
\* a complete document (the previous snapshot or the new one), never an
\* empty or partly written one.
C17_FileCompleteAfterKill == pc = "killed" => Complete(disk)

\* the handler of cur started the shell subprocess as its i-th event
ShellStarted(i) == i \in 1..Len(out) /\ out[i].kind = "subprocess_shell"

\* an acknowledgment was sent before the i-th event of the handler
AckBefore(i) == \E j \in 1..(i - 1) : out[j].kind = "send_ack"

\* the thread of cur is polled for replies
MarkedActive == cur.thread_ts \in DOMAIN active_threads

\* the assistant path: acknowledgment and marker precede the subprocess
AssistantAcknowledged ==
    InRunClaude => /\ out # <<>> /\ Head(out).kind = "send_ack"
                   /\ MarkedActive

\* the shell path: the marker precedes the subprocess
ShellMarkedActive == \A i \in 1..Len(out) : ShellStarted(i) => MarkedActive

\* C18: when a handler has started a subprocess, the shell or the
\* assistant, it has sent an acknowledgment to the thread before and the
\* thread is marked active.
C18_AckBeforeSubprocess ==
    /\ AssistantAcknowledged
    /\ \A i \in 1..Len(out) : ShellStarted(i) => AckBefore(i) /\ MarkedActive

\* the session entry of the thread the assistant runs for
Entry == Get(sessions, run.call.thread_ts, <<>>)

\* the command line of a running invocation follows the thread's entry
ArgsFollowEntry ==
    InRunClaude =>
        /\ (run.cmd.resume # <<>>) <=> (Entry # <<>> /\ Entry # SENTINEL_CONTINUE)
        /\ run.cmd.resume # <<>> => run.cmd.resume = Entry
        /\ run.cmd.continue <=> (Entry = SENTINEL_CONTINUE)
        /\ ~(run.cmd.resume # <<>> /\ run.cmd.continue)

\* the session id an invocation returned is the thread's entry, saved
ReturnedIdStored ==
    (~InRunClaude /\ run.new_sid # <<>>) =>
        /\ Entry = run.new_sid
        /\ disk.sessions = sessions

\* C19: an invocation carries --resume <id> exactly when the thread stores
\* a session id, --continue exactly when it stores the sentinel, never both
\* and neither without an entry; a session id the invocation returns
\* replaces the thread's entry, the sentinel included.
C19_ResumeFollowsEntry == ArgsFollowEntry /\ ReturnedIdStored

\* an invocation with --continue returned a session id, which replaced the
\* sentinel
C19_Witness ==
    /\ ~InRunClaude /\ run.cmd.continue
    /\ run.new_sid = SID_A /\ Entry = SID_A

\* an invocation with --resume x is running
ResumesGivenId == InRunClaude /\ run.cmd.resume = <<"x">>

\* an invocation with neither argument is running
StartsFresh == InRunClaude /\ run.cmd = NoArgs

\* run_claude's subprocess has ended and the calling flow has left handle
AssistantEnded == run.done /\ ~InRunClaude

\* C20: whatever the assistant printed, the handler completes: no
\* exception leaves it and a result message is sent to the thread.
C20_AssistantCompletes ==
    AssistantEnded => Has(out, "send_result") /\ ~Has(out, "raise")

\* the outputs with which the handler does complete: a run error, empty
\* stdout, stdout that is not JSON, and an object with a text result or none
CompletesForTextResults ==
    AssistantEnded =>
        \A kind \in OutputKinds \ {"non_object", "object_bad_result"} :
            \A sid \in {<<>>, SID_A} :
                /\ ~ClaudeResult(kind, sid).raises
                /\ ClaudeResult(kind, sid).sent
                /\ kind \notin {"object", "object_no_result"}
                      => ClaudeResult(kind, sid).new_sid = <<>>

\* the calling flow is inside the while loop of fetch_messages or
\* fetch_replies
Fetching == pc \in {"fetch_top", "fetch_replies"}

\* C21: a call of fetch_messages or fetch_replies returns, whatever the
\* transport answers.
C21_FetchTerminates == Fetching ~> ~Fetching

\* the top-level messages posted after startup the cursor has reached or
\* passed: fetch_messages asks for nothing at or below the cursor
BehindCursor == { ts \in TopLevel : STARTUP_TS < ts /\ ts <= last_ts }

\* message ts was fetched, and held the text of a user
HumanMessage(ts) ==
    /\ channel[ts].read
    /\ ~Skipped(Msg(ts, [user |-> channel[ts].user, bot_id |-> channel[ts].bot_id,
                         text |-> channel[ts].text]))

\* the cursor is not advanced past a message that was not fetched
NoMessageSkipped == \A ts \in BehindCursor : channel[ts].read

\* a message of a user behind the cursor was dispatched, once
DispatchedOnce == \A ts \in BehindCursor : HumanMessage(ts) => handled[ts] = 1

\* C22: no top-level message is lost: the cursor is not advanced past a
\* message that was not fetched, and a non-empty message of a user that the
\* cursor has passed was dispatched exactly once.
C22_NoMessageLost == NoMessageSkipped /\ DispatchedOnce

\* fetch_messages returned at the cap after well-formed answers, without
\* an older message posted since the last tick; the loop moves the cursor
\* to the newest message returned
LostBeyondCap ==
    /\ pc = "top" /\ Len(msgs) = FetchLimit
    /\ answer.has_more /\ answer.next_cursor # ""
    /\ \E ts \in TopLevel :
          last_ts < ts /\ ts < Head(msgs) /\ ~channel[ts].read

Replies == { ts \in DOMAIN channel : channel[ts].thread_ts # ts }

\* the id of the startup message of the running process
StartupMessages ==
    { ts \in DOMAIN channel : channel[ts] = StartupMessage(ts) }

LastStartup == IF StartupMessages = {} THEN STARTUP_TS ELSE Newest(StartupMessages)

\* the step dispatches reply ts, posted before the running process started
DispatchesOldReply(ts) ==
    /\ ts \in Replies /\ ts < LastStartup
    /\ handled'[ts] > handled[ts]

\* C23: a reply that was dispatched before the process was restarted is not
\* dispatched again by the restarted process.
C23_NoReplyRedispatched ==
    [][ \A ts \in DOMAIN channel : DispatchesOldReply(ts) => handled[ts] = 0 ]_vars

\* a stop reply handled before a restart stopped the restarted process too
StoppedAgain ==
    /\ pc = "exited" /\ cur.text = <<"s","t","o","p">>
    /\ cur.ts \in Replies /\ cur.ts < LastStartup /\ handled[cur.ts] = 2

\* a shell reply handled before a restart was executed again
ShellRanAgain ==
    /\ Has(out, "subprocess_shell")
    /\ cur.ts \in Replies /\ cur.ts < LastStartup /\ handled[cur.ts] = 2

====
